---- MODULE Spec2Model ----
(***************************************************************************)
(* A model of Scripts/Comp/pa_SplitEXR.py: the channel-name grouping, the  *)
(* plugin dispatch loop with its three plugins, the multi-part splitter,   *)
(* the layout arranger and the orchestration script with its lock/undo     *)
(* bracket.                                                                *)
(*                                                                         *)
(* Strings are sequences of one-character strings, so that split, join,    *)
(* lower(), upper() and the substring test are computed, not assumed.      *)
(* Host attributes that no property reads (node names, frame ranges, the   *)
(* gamut setting, the clip file name) are not part of the state.           *)
(***************************************************************************)
EXTENDS Integers, Sequences, FiniteSets, TLC

VARIABLES
    pc,              \* position of the single thread of control
    entry,           \* which function the run entered by: "script", "split", "group", "arrange"
    selection,       \* comp.GetToolList(True, "Loader"): the selected Loader tools, in order
    ti,              \* index in selection of the tool the script loop is at
    undo,            \* host undo transaction: [open, starts, ends, completed]
    lock,            \* host graph lock: [held, locks, unlocks]
    events,          \* what split_exr did: <<what, tool index, nodes arranged>>
    tool,            \* the originating loader of the current split
    plugin_classes,  \* the chain handed to split_multilayer_exr
    options,         \* the options dict handed to split_multilayer_exr (shared by all plugins)
    layers,          \* ordered mapping layer name -> list of (key, raw)
    plugins,         \* the plugin instances, one per class of the chain
    li,              \* index of the layer the dispatch loop is at
    pi,              \* index of the plugin tried next on that layer
    calls,           \* log of process_layer calls: layer, plugin, result, writes
    new_tools,       \* ids of the nodes recorded for layout
    comp_tools,      \* every node created in the comp, by id
    flow,            \* flow-view position of every created node, by id
    loader_fmt,      \* attributes written on the originating loader's OpenEXRFormat
    exc,             \* the exception in flight, or NoExc
    arr              \* arguments of a direct arrange_tools_table call

vars == <<pc, entry, selection, ti, undo, lock, events, tool, plugin_classes,
          options, layers, plugins, li, pi, calls, new_tools, comp_tools, flow,
          loader_fmt, exc, arr>>

\* ------------------------------------------------------------------ bounds

\* longest channel list handed to the grouping alone
MaxChannels == 3

\* longest channel list of a loader split with an arbitrary chain
MaxSplitChannels == 2

\* longest channel list of a loader split by DefaultPlugin alone
MaxDefaultChannels == 4

\* longest channel list of a loader split by VrayPlugin alone
MaxVrayChannels == 3

\* most Loader tools selected when the script runs
MaxSel == 2

\* most nodes handed to the arranger directly
MaxArrange == 25

\* ----------------------------------------------------------------- strings

UpperLetters == <<"A","B","C","D","E","F","G","H","I","J","K","L","M",
                  "N","O","P","Q","R","S","T","U","V","W","X","Y","Z">>

LowerLetters == <<"a","b","c","d","e","f","g","h","i","j","k","l","m",
                  "n","o","p","q","r","s","t","u","v","w","x","y","z">>

LowerChar(c) ==
    IF \E i \in 1..Len(UpperLetters) : UpperLetters[i] = c
    THEN LowerLetters[CHOOSE i \in 1..Len(UpperLetters) : UpperLetters[i] = c]
    ELSE c

UpperChar(c) ==
    IF \E i \in 1..Len(LowerLetters) : LowerLetters[i] = c
    THEN UpperLetters[CHOOSE i \in 1..Len(LowerLetters) : LowerLetters[i] = c]
    ELSE c

\* str.lower()
Lower(s) == [i \in 1..Len(s) |-> LowerChar(s[i])]

\* str.upper()
Upper(s) == [i \in 1..Len(s) |-> UpperChar(s[i])]

\* sub in s
Contains(sub, s) ==
    \E i \in 1..(Len(s) - Len(sub) + 1) : SubSeq(s, i, i + Len(sub) - 1) = sub

namespace_separator == "."

RECURSIVE SplitAcc(_, _, _, _)
SplitAcc(s, i, cur, acc) ==
    IF i > Len(s) THEN Append(acc, cur)
    ELSE IF s[i] = namespace_separator
         THEN SplitAcc(s, i + 1, <<>>, Append(acc, cur))
         ELSE SplitAcc(s, i + 1, Append(cur, s[i]), acc)

\* channel.split(namespace_separator): n separators give n + 1 segments
Split(s) == SplitAcc(s, 1, <<>>, <<>>)

RECURSIVE Join(_)
\* namespace_separator.join(segs)
Join(segs) ==
    IF Len(segs) = 0 THEN <<>>
    ELSE IF Len(segs) = 1 THEN segs[1]
    ELSE segs[1] \o <<namespace_separator>> \o Join(Tail(segs))

SeqsUpTo(S, n) == UNION {[1..k -> S] : k \in 0..n}

\* the sequences of SeqsUpTo(S, n) that name no element twice
DistinctSeqsUpTo(S, n) ==
    {q \in SeqsUpTo(S, n) : \A i, j \in 1..Len(q) : q[i] = q[j] => i = j}

\* ---------------------------------------------------------------- grouping

default == <<"d","e","f","a","u","l","t">>

\* a grouping that names the layer by the first segment only
LayerName_FirstSegment(channel) ==
    LET s == Split(channel)
    IN  IF Len(s) > 1 THEN s[1] ELSE default

\* lines 301-307: the layer name of one raw channel identifier
LayerName(channel) ==
    LET s == Split(channel)
    IN  IF Len(s) > 1 THEN Join(SubSeq(s, 1, Len(s) - 1)) ELSE default

\* lines 303, 306, 310: its channel key
ChannelKey(channel) ==
    LET s == Split(channel)
    IN  Lower(IF Len(s) > 1 THEN s[Len(s)] ELSE channel)

HasLayer(ls, name) == \E i \in 1..Len(ls) : ls[i].name = name

IndexOfLayer(ls, name) == CHOOSE i \in 1..Len(ls) : ls[i].name = name

\* lines 308-311: one pass of the loop body
AddChannel(ls, channel) ==
    LET name == LayerName(channel)
        pair == <<ChannelKey(channel), channel>>
        ls1  == IF HasLayer(ls, name) THEN ls
                ELSE Append(ls, [name |-> name, channels |-> <<>>])
        i    == IndexOfLayer(ls1, name)
    IN  [ls1 EXCEPT ![i].channels = Append(@, pair)]

RECURSIVE GroupFrom(_, _, _)
GroupFrom(src, i, ls) ==
    IF i > Len(src) THEN ls ELSE GroupFrom(src, i + 1, AddChannel(ls, src[i]))

\* lines 298-311: the layers dict, in insertion order
GroupChannels(src) == GroupFrom(src, 1, <<>>)

\* ----------------------------------------------------------------- plugins

NoExc == "none"

CryptomattePlugin == "CryptomattePlugin"
DefaultPlugin == "DefaultPlugin"
VrayPlugin == "VrayPlugin"

EmptyOptions == [k \in {} |-> FALSE]

\* the default_options of each plugin class (lines 104, 145-147, 226-229)
default_options(class) ==
    CASE class = DefaultPlugin -> [alpha_fallback |-> FALSE]
      [] class = VrayPlugin -> [use_aux_channels |-> TRUE, flip_worldpos_axis |-> TRUE]
      [] OTHER -> EmptyOptions

\* lines 110-113: the caller's dict is kept and the absent keys are filled in
MergeDefaults(opts, class) ==
    LET d == default_options(class)
    IN  [k \in (DOMAIN opts) \cup (DOMAIN d) |->
            IF k \in DOMAIN opts THEN opts[k] ELSE d[k]]

RECURSIVE MergeAll(_, _, _)
\* line 315: every instance is built over the same options dict
MergeAll(opts, classes, i) ==
    IF i > Len(classes) THEN opts
    ELSE MergeAll(MergeDefaults(opts, classes[i]), classes, i + 1)

\* lines 106-113, 202-204: a fresh instance
NewPlugin(class) == [class |-> class, made_crypto |-> FALSE]

CHANNEL_NO_MATCH ==
    <<"S","o","m","e","t","h","i","n","g","T","h","a","t","W","o","n","t",
      "M","a","t","c","h","H","o","p","e","f","u","l","l","y">>

\* lines 149-160
channel_mappings ==
    [r |-> "RedName", g |-> "GreenName", b |-> "BlueName", a |-> "AlphaName",
     u |-> "RedName", v |-> "GreenName", w |-> "BlueName",
     x |-> "RedName", y |-> "GreenName", z |-> "BlueName"]

\* channel in self.channel_mappings: the keys are one-letter strings
InChannelMappings(channel) == Len(channel) = 1 /\ channel[1] \in DOMAIN channel_mappings

\* lines 174-178
ResetFmt ==
    [RedName |-> CHANNEL_NO_MATCH, GreenName |-> CHANNEL_NO_MATCH,
     BlueName |-> CHANNEL_NO_MATCH, AlphaName |-> CHANNEL_NO_MATCH,
     ZName |-> CHANNEL_NO_MATCH]

\* lines 181-185: one pass of the loop body
MapChannel(fmt, pair) ==
    IF ~InChannelMappings(pair[1]) THEN fmt
    ELSE [fmt EXCEPT ![channel_mappings[pair[1][1]]] = pair[2]]

\* a loop that stops at the first unknown key instead of skipping it
MapChannels_Break(fmt, channels, i) ==
    LET known == {k \in 1..Len(channels) :
                    \A j \in 1..k : InChannelMappings(channels[j][1])}
    IN  [slot \in DOMAIN fmt |->
            LET hits == {k \in known : channel_mappings[channels[k][1][1]] = slot}
            IN  IF hits = {} THEN fmt[slot]
                ELSE channels[CHOOSE k \in hits : \A j \in hits : j <= k][2]]

RECURSIVE MapChannels(_, _, _)
\* lines 180-185
MapChannels(fmt, channels, i) ==
    IF i > Len(channels) THEN fmt
    ELSE MapChannels(MapChannel(fmt, channels[i]), channels, i + 1)

\* What one process_layer call did: its result ("False", "True", "tool" for a node,
\* "raise"), the exception, the nodes it created in the comp, the attributes it wrote
\* on the originating loader, and the instance afterwards.
Outcome(result, e, created, writes, inst) ==
    [result |-> result, exc |-> e, created |-> created, writes |-> writes, inst |-> inst]

\* lines 164-197. channels is a list of pairs, so channels.keys() at line 187 raises
\* AttributeError as soon as alpha_fallback is true; lines 188-190 are never reached.
DefaultProcessLayer(inst, opts, channels, host_ok) ==
    LET fmt == MapChannels(ResetFmt, channels, 1)
        new_loader == [kind |-> "Loader", fmt |-> fmt]
    IN  IF ~host_ok THEN Outcome("raise", "HostError", <<>>, <<>>, inst)
        ELSE IF opts["alpha_fallback"]
        THEN Outcome("raise", "AttributeError", <<new_loader>>, <<>>, inst)
        ELSE Outcome("tool", NoExc, <<new_loader>>, <<>>, inst)

crypto == <<"c","r","y","p","t","o">>

\* a matte plugin that forgets it already made its node
CryptoProcessLayer_NoGuard(inst, layer_name, host_ok) ==
    IF ~Contains(crypto, Lower(layer_name)) THEN Outcome("False", NoExc, <<>>, <<>>, inst)
    ELSE IF ~host_ok THEN Outcome("raise", "HostError", <<>>, <<>>, inst)
    ELSE Outcome("tool", NoExc, <<[kind |-> "Fuse.Cryptomatte"]>>, <<>>,
                 [inst EXCEPT !.made_crypto = TRUE])

\* lines 206-221
CryptoProcessLayer(inst, layer_name, host_ok) ==
    IF ~Contains(crypto, Lower(layer_name)) THEN Outcome("False", NoExc, <<>>, <<>>, inst)
    ELSE IF inst.made_crypto THEN Outcome("True", NoExc, <<>>, <<>>, inst)
    ELSE IF ~host_ok THEN Outcome("raise", "HostError", <<>>, <<>>, inst)
    ELSE Outcome("tool", NoExc, <<[kind |-> "Fuse.Cryptomatte"]>>, <<>>,
                 [inst EXCEPT !.made_crypto = TRUE])

\* lines 232-236
pos_remappings == [r |-> <<"x">>, g |-> <<"y">>, b |-> <<"z">>]

\* lines 239-243, in the dict's order
layer_name_keys == << <<"n","o","r","m","a","l">>, <<"p","o","s">>, <<"v","e","l">> >>

layer_name_values ==
    << <<"N","o","r","m","N","a","m","e">>, <<"P","o","s","N","a","m","e">>,
       <<"V","e","l","N","a","m","e">> >>

\* line 253: index of the first key found in the lower-cased layer name, 0 for None
MappingIndex(layer_name) ==
    LET hits == {i \in 1..Len(layer_name_keys) : Contains(layer_name_keys[i], Lower(layer_name))}
    IN  IF hits = {} THEN 0 ELSE CHOOSE i \in hits : \A j \in hits : i <= j

\* an axis mapping that never swaps y and z
AxisLetter_NoFlip(channel, is_pos, flip) ==
    IF Len(channel) = 1 /\ channel[1] \in DOMAIN pos_remappings
    THEN pos_remappings[channel[1]] ELSE channel

\* lines 261-272: the axis letter of one channel key
AxisLetter(channel, is_pos, flip) ==
    LET c1 == IF Len(channel) = 1 /\ channel[1] \in DOMAIN pos_remappings
              THEN pos_remappings[channel[1]] ELSE channel
    IN  IF is_pos /\ flip
        THEN (IF c1 = <<"z">> THEN <<"y">> ELSE IF c1 = <<"y">> THEN <<"z">> ELSE c1)
        ELSE c1

\* lines 273-274
FusionName(channel, mi, flip) ==
    Upper(AxisLetter(channel, layer_name_keys[mi] = <<"p","o","s">>, flip))
        \o layer_name_values[mi]

\* lines 245-278
VrayProcessLayer(inst, opts, layer_name, channels) ==
    IF ~opts["use_aux_channels"] THEN Outcome("False", NoExc, <<>>, <<>>, inst)
    ELSE LET mi == MappingIndex(layer_name)
         IN  IF mi = 0 THEN Outcome("False", NoExc, <<>>, <<>>, inst)
             ELSE Outcome("True", NoExc, <<>>,
                    [i \in 1..Len(channels) |->
                        <<FusionName(channels[i][1], mi, opts["flip_worldpos_axis"]),
                          channels[i][2]>>],
                    inst)

\* line 326: plugin.process_layer(layer_name, channels)
ProcessLayer(inst, opts, layer, host_ok) ==
    CASE inst.class = DefaultPlugin -> DefaultProcessLayer(inst, opts, layer.channels, host_ok)
      [] inst.class = CryptomattePlugin -> CryptoProcessLayer(inst, layer.name, host_ok)
      [] inst.class = VrayPlugin -> VrayProcessLayer(inst, opts, layer.name, layer.channels)

\* fmt[key] = value on an attribute table kept as a set of <<key, value>>
SetAttr(attrs, key, value) == {p \in attrs : p[1] # key} \cup {<<key, value>>}

RECURSIVE ApplyWrites(_, _, _)
ApplyWrites(attrs, writes, i) ==
    IF i > Len(writes) THEN attrs
    ELSE ApplyWrites(SetAttr(attrs, writes[i][1], writes[i][2]), writes, i + 1)

\* ---------------------------------------------------------- layout arranger

\* line 382: the parameter is overwritten
max_rows == 20

\* where the host puts a node it has just created
NewPos == <<0, 0>>

\* lines 386-389, for the tool at 0-based index i; int(i / rows) truncates a quotient
\* that is not negative
SetPos(fl, id, org, col_spacing, rows, i) ==
    [fl EXCEPT ![id] = <<org[1] + (i \div rows) * col_spacing, org[2] + (i % rows)>>]

RECURSIVE ArrangeFrom(_, _, _, _, _, _)
\* lines 384-389
ArrangeFrom(fl, tools, org, col_spacing, rows, k) ==
    IF k > Len(tools) THEN fl
    ELSE ArrangeFrom(SetPos(fl, tools[k], org, col_spacing, rows, k - 1),
                     tools, org, col_spacing, rows, k + 1)

\* an arranger that honours the max_rows it is passed
arrange_tools_table_MaxRowsArg(fl, tools, col_spacing, max_rows_arg, org) ==
    ArrangeFrom(fl, tools, org, col_spacing, max_rows_arg, 1)

\* lines 376-389, once the origin is known; line 382 overwrites the parameter
arrange_tools_table(fl, tools, col_spacing, max_rows_arg, org) ==
    ArrangeFrom(fl, tools, org, col_spacing, max_rows, 1)

\* ------------------------------------------------------------ the script

\* lines 85-91
is_exr_loader(t) == t.fmt_name = "OpenEXRFormat"

\* a test that never finds a Part input
is_multipart_exr_Never(t) == FALSE

\* lines 74-82
is_multipart_exr(t) == is_exr_loader(t) /\ t.has_part

\* line 405
ScriptPlugins == <<CryptomattePlugin, DefaultPlugin>>

\* a try block without its finally: the exception leaves the script at once
RaiseTo_NoFinally(e) == "raised"

\* an exception unwinds to the finally block of lines 412-414 when the script is on
\* the stack, and out of the function otherwise
RaiseTo(e) == IF entry = "script" THEN "finally" ELSE "raised"

\* line 406
StartUndo ==
    /\ pc = "script"
    /\ undo' = [undo EXCEPT !.open = TRUE, !.starts = @ + 1]
    /\ pc' = "lock"
    /\ UNCHANGED <<entry, selection, ti, lock, events, tool, plugin_classes, options,
                   layers, plugins, li, pi, calls, new_tools, comp_tools, flow,
                   loader_fmt, exc, arr>>

\* line 407
Lock ==
    /\ pc = "lock"
    /\ lock' = [lock EXCEPT !.held = TRUE, !.locks = @ + 1]
    /\ pc' = "loop"
    /\ UNCHANGED <<entry, selection, ti, undo, events, tool, plugin_classes, options,
                   layers, plugins, li, pi, calls, new_tools, comp_tools, flow,
                   loader_fmt, exc, arr>>

\* lines 409-411: the loop head takes the next selected tool or leaves the try block
LoopTool ==
    /\ pc = "loop"
    /\ IF ti < Len(selection)
       THEN /\ ti' = ti + 1
            /\ tool' = selection[ti + 1]
            /\ loader_fmt' = {}
            /\ pc' = "split_exr"
       ELSE /\ pc' = "finally"
            /\ UNCHANGED <<ti, tool, loader_fmt>>
    /\ UNCHANGED <<entry, selection, undo, lock, events, plugin_classes, options,
                   layers, plugins, li, pi, calls, new_tools, comp_tools, flow, exc, arr>>

\* lines 393-397: neither branch binds new_tools for a loader that is not EXR, and
\* line 397 then raises UnboundLocalError
SplitExr ==
    /\ pc = "split_exr"
    /\ IF is_multipart_exr(tool)
       THEN /\ pc' = "split_multipart"
            /\ events' = Append(events, <<"split_multipart_exr", ti, 0>>)
            /\ exc' = exc
       ELSE IF is_exr_loader(tool)
       THEN /\ pc' = "split_multilayer"
            /\ events' = Append(events, <<"split_multilayer_exr", ti, 0>>)
            /\ exc' = exc
       ELSE /\ pc' = RaiseTo("UnboundLocalError")
            /\ events' = Append(events, <<"raise", ti, 0>>)
            /\ exc' = "UnboundLocalError"
    /\ UNCHANGED <<entry, selection, ti, undo, lock, tool, plugin_classes, options,
                   layers, plugins, li, pi, calls, new_tools, comp_tools, flow,
                   loader_fmt, arr>>

\* lines 343-373: one loader per part name; a creation the host refuses raises
SplitMultipart ==
    /\ pc = "split_multipart"
    /\ \E fail_at \in 0..Len(tool.parts) :
         LET n == IF fail_at = 0 THEN Len(tool.parts) ELSE fail_at - 1
             made == [i \in 1..n |-> [kind |-> "Loader", part |-> tool.parts[i]]]
         IN  /\ comp_tools' = comp_tools \o made
             /\ flow' = flow \o [i \in 1..n |-> NewPos]
             /\ IF fail_at = 0
                THEN /\ new_tools' = [i \in 1..n |-> Len(comp_tools) + i]
                     /\ pc' = "after_split"
                     /\ UNCHANGED <<exc, events>>
                ELSE /\ new_tools' = <<>>
                     /\ pc' = RaiseTo("HostError")
                     /\ exc' = "HostError"
                     /\ events' = Append(events, <<"raise", ti, 0>>)
    /\ UNCHANGED <<entry, selection, ti, undo, lock, tool, plugin_classes, options,
                   layers, plugins, li, pi, calls, loader_fmt, arr>>

\* lines 289-311
GroupLayers ==
    /\ pc = "split_multilayer"
    /\ layers' = GroupChannels(tool.channels)
    /\ plugins' = <<>>
    /\ new_tools' = <<>>
    /\ calls' = <<>>
    /\ li' = 0
    /\ pi' = 0
    /\ pc' = "instantiate"
    /\ UNCHANGED <<entry, selection, ti, undo, lock, events, tool, plugin_classes,
                   options, comp_tools, flow, loader_fmt, exc, arr>>

\* lines 315-317
InstantiatePlugins ==
    /\ pc = "instantiate"
    /\ options' = MergeAll(options, plugin_classes, 1)
    /\ plugins' = [i \in 1..Len(plugin_classes) |-> NewPlugin(plugin_classes[i])]
    /\ li' = 1
    /\ pi' = 1
    /\ pc' = "dispatch"
    /\ UNCHANGED <<entry, selection, ti, undo, lock, events, tool, plugin_classes,
                   layers, calls, new_tools, comp_tools, flow, loader_fmt, exc, arr>>

\* a loop without the break of line 334: the next plugin is tried whatever the result
Advance_NoBreak(result, l, p, n) ==
    IF p < n THEN <<l, p + 1>> ELSE <<l + 1, 1>>

\* lines 328-336: the <<layer, plugin>> the loops go to after a result: a truthy result
\* breaks to the next layer, a false one tries the next plugin, if any
Advance(result, l, p, n) ==
    IF result # "False" THEN <<l + 1, 1>>
    ELSE IF p < n THEN <<l, p + 1>> ELSE <<l + 1, 1>>

\* lines 330-332: only a result with GetAttrs, a node, is recorded
Record(tools, result, ids) == IF result = "tool" THEN tools \o ids ELSE tools

\* lines 324-336: one process_layer call and what the loop does with its result
CallPlugin ==
    /\ pc = "dispatch"
    /\ li <= Len(layers)
    /\ Len(plugins) >= 1
    /\ \E host_ok \in BOOLEAN :
         LET out == ProcessLayer(plugins[pi], options, layers[li], host_ok)
             ids == [i \in 1..Len(out.created) |-> Len(comp_tools) + i]
         IN  /\ plugins' = [plugins EXCEPT ![pi] = out.inst]
             /\ comp_tools' = comp_tools \o out.created
             /\ flow' = flow \o [i \in 1..Len(out.created) |-> NewPos]
             /\ loader_fmt' = ApplyWrites(loader_fmt, out.writes, 1)
             /\ calls' = Append(calls, [layer |-> li, plugin |-> pi,
                                        class |-> plugins[pi].class,
                                        result |-> out.result, exc |-> out.exc,
                                        tools |-> ids,
                                        writes |-> out.writes])
             /\ IF out.result = "raise"
                THEN /\ exc' = out.exc
                     /\ pc' = RaiseTo(out.exc)
                     /\ events' = IF entry = "script"
                                  THEN Append(events, <<"raise", ti, 0>>) ELSE events
                     /\ UNCHANGED <<li, pi, new_tools>>
                ELSE /\ new_tools' = Record(new_tools, out.result, ids)
                     /\ li' = Advance(out.result, li, pi, Len(plugins))[1]
                     /\ pi' = Advance(out.result, li, pi, Len(plugins))[2]
                     /\ UNCHANGED <<pc, exc, events>>
    /\ UNCHANGED <<entry, selection, ti, undo, lock, tool, plugin_classes, options,
                   layers, arr>>

\* line 340; with an empty chain the inner loop has no pass and every layer is skipped
ReturnNewTools ==
    /\ pc = "dispatch"
    /\ (li > Len(layers) \/ Len(plugins) = 0)
    /\ pc' = IF entry = "script" THEN "after_split" ELSE "split_done"
    /\ UNCHANGED <<entry, selection, ti, undo, lock, events, tool, plugin_classes,
                   options, layers, plugins, li, pi, calls, new_tools, comp_tools, flow,
                   loader_fmt, exc, arr>>

\* lines 397-399
AfterSplit ==
    /\ pc = "after_split"
    /\ IF new_tools = <<>>
       THEN /\ events' = Append(events, <<"return", ti, 0>>)
            /\ flow' = flow
       ELSE /\ events' = Append(events, <<"arrange_tools_table", ti, Len(new_tools)>>)
            /\ flow' = arrange_tools_table(flow, new_tools, 1, max_rows, tool.pos)
    /\ pc' = "loop"
    /\ UNCHANGED <<entry, selection, ti, undo, lock, tool, plugin_classes, options,
                   layers, plugins, li, pi, calls, new_tools, comp_tools, loader_fmt,
                   exc, arr>>

\* line 413
Unlock ==
    /\ pc = "finally"
    /\ lock' = [lock EXCEPT !.held = FALSE, !.unlocks = @ + 1]
    /\ pc' = "end_undo"
    /\ UNCHANGED <<entry, selection, ti, undo, events, tool, plugin_classes, options,
                   layers, plugins, li, pi, calls, new_tools, comp_tools, flow,
                   loader_fmt, exc, arr>>

\* line 414; the exception in flight, if any, leaves the function after the finally block
EndUndo ==
    /\ pc = "end_undo"
    /\ undo' = [undo EXCEPT !.open = FALSE, !.ends = @ + 1, !.completed = TRUE]
    /\ pc' = IF exc = NoExc THEN "returned" ELSE "raised"
    /\ UNCHANGED <<entry, selection, ti, lock, events, tool, plugin_classes, options,
                   layers, plugins, li, pi, calls, new_tools, comp_tools, flow,
                   loader_fmt, exc, arr>>

\* lines 376-389 called directly: without an origin the first tool is the origin,
\* and tools[0] of an empty list raises IndexError
ArrangeCall ==
    /\ pc = "arrange"
    /\ IF ~arr.origin_given /\ Len(arr.tools) = 0
       THEN /\ exc' = "IndexError"
            /\ pc' = "raised"
            /\ flow' = flow
       ELSE /\ flow' = arrange_tools_table(flow, arr.tools, arr.col_spacing, arr.max_rows,
                            IF arr.origin_given THEN arr.origin_pos ELSE flow[arr.tools[1]])
            /\ pc' = "arranged"
            /\ exc' = exc
    /\ UNCHANGED <<entry, selection, ti, undo, lock, events, tool, plugin_classes,
                   options, layers, plugins, li, pi, calls, new_tools, comp_tools,
                   loader_fmt, arr>>

\* ------------------------------------------------------------------ inputs

Id_A == <<"A">>
Id_Z == <<"Z">>
Id_VRayNormal_R == <<"V","R","a","y","N","o","r","m","a","l",".","R">>
Id_VRayNormal_G == <<"V","R","a","y","N","o","r","m","a","l",".","G">>
Id_VRayNormal_B == <<"V","R","a","y","N","o","r","m","a","l",".","B">>
Id_a_b_R == <<"a",".","b",".","R">>
Id_dot_R == <<".","R">>
Id_default_A == <<"d","e","f","a","u","l","t",".","A">>
Id_L_dot == <<"L",".">>

\* raw identifiers for the grouping: dotted, bare, several dots, empty segments, and a
\* dotted name whose layer is literally "default"
GroupPool ==
    {Id_A, Id_Z, Id_VRayNormal_R, Id_VRayNormal_G, Id_VRayNormal_B, Id_a_b_R,
     Id_dot_R, Id_default_A, Id_L_dot}

Id_crypto_R == <<"c","r","y","p","t","o",".","R">>
Id_CRYPTO1_G == <<"C","R","Y","P","T","O","1",".","G">>
Id_L_R == <<"L",".","R">>
Id_pos_G == <<"p","o","s",".","G">>
Id_Crypto_pos_B == <<"C","r","y","p","t","o",".","p","o","s",".","B">>

\* raw identifiers for the dispatch: matte-named layers in either case, a plain layer,
\* the default layer, an auxiliary layer, and a layer that is both matte- and
\* auxiliary-named
SplitPool == {Id_A, Id_crypto_R, Id_CRYPTO1_G, Id_L_R, Id_pos_G, Id_Crypto_pos_B}

Id_position_R == <<"p","o","s","i","t","i","o","n",".","R">>
Id_position_G == <<"p","o","s","i","t","i","o","n",".","G">>
Id_position_B == <<"p","o","s","i","t","i","o","n",".","B">>
Id_position_A == <<"p","o","s","i","t","i","o","n",".","A">>
Id_position_Y == <<"p","o","s","i","t","i","o","n",".","Y">>
Id_position_Q == <<"p","o","s","i","t","i","o","n",".","Q">>
Id_PositionNormal_G ==
    <<"P","o","s","i","t","i","o","n","N","o","r","m","a","l",".","G">>

Id_U == <<"U">>

\* raw identifiers for DefaultPlugin alone: one layer with colour, alpha, axis and
\* unknown keys, and the default layer with an alpha and a texture-coordinate key
DefaultPool ==
    {Id_A, Id_U, Id_position_R, Id_position_G, Id_position_B, Id_position_A,
     Id_position_Y, Id_position_Q}

\* raw identifiers for VrayPlugin alone: a position layer with colour and axis keys, a
\* layer named for two auxiliary groups, and the default layer
VrayPool ==
    {Id_A, Id_position_R, Id_position_G, Id_position_B, Id_position_Y,
     Id_PositionNormal_G}

PluginClasses == {CryptomattePlugin, DefaultPlugin, VrayPlugin}

\* every order of every subset of the plugin classes
Chains == DistinctSeqsUpTo(PluginClasses, Cardinality(PluginClasses))

OptionKeys == {"alpha_fallback", "use_aux_channels", "flip_worldpos_axis"}

\* every options dict a caller can pass over the known keys, keys left out included
AllOptions == UNION {[D -> BOOLEAN] : D \in SUBSET OptionKeys}

ExrLoader(channels) ==
    [fmt_name |-> "OpenEXRFormat", has_part |-> FALSE, parts |-> <<>>,
     channels |-> channels, pos |-> <<3, 1>>]

MultipartLoader(parts) ==
    [fmt_name |-> "OpenEXRFormat", has_part |-> TRUE, parts |-> parts,
     channels |-> <<Id_A>>, pos |-> <<5, 2>>]

OtherLoader ==
    [fmt_name |-> "PNGFormat", has_part |-> FALSE, parts |-> <<>>,
     channels |-> <<>>, pos |-> <<7, 3>>]

\* the Loader tools a selection is drawn from
ToolPool ==
    {OtherLoader, MultipartLoader(<<>>), MultipartLoader(<<"diffuse", "specular">>),
     ExrLoader(<<>>), ExrLoader(<<Id_L_R, Id_A>>),
     ExrLoader(<<Id_crypto_R, Id_L_R, Id_CRYPTO1_G>>)}

NoTool == [fmt_name |-> "", has_part |-> FALSE, parts |-> <<>>, channels |-> <<>>,
           pos |-> NewPos]

NoArr == [tools |-> <<>>, col_spacing |-> 1, max_rows |-> max_rows,
          origin_given |-> FALSE, origin_pos |-> NewPos]

\* the state shared by every entry point before anything ran
Fresh ==
    /\ ti = 0
    /\ undo = [open |-> FALSE, starts |-> 0, ends |-> 0, completed |-> FALSE]
    /\ lock = [held |-> FALSE, locks |-> 0, unlocks |-> 0]
    /\ events = <<>>
    /\ layers = <<>>
    /\ plugins = <<>>
    /\ li = 0
    /\ pi = 0
    /\ calls = <<>>
    /\ new_tools = <<>>
    /\ comp_tools = <<>>
    /\ loader_fmt = {}
    /\ exc = NoExc

\* split_exr_script(comp) on a selection of Loader tools (lines 402-405)
Init ==
    /\ pc = "script"
    /\ entry = "script"
    /\ selection \in SeqsUpTo(ToolPool, MaxSel)
    /\ tool = NoTool
    /\ plugin_classes = ScriptPlugins
    /\ options = EmptyOptions
    /\ flow = <<>>
    /\ arr = NoArr
    /\ Fresh

\* split_multilayer_exr(comp, loader, plugin_classes, options) called with any chain
InitSplit ==
    /\ pc = "split_multilayer"
    /\ entry = "split"
    /\ selection = <<>>
    /\ \E ch \in DistinctSeqsUpTo(SplitPool, MaxSplitChannels) : tool = ExrLoader(ch)
    /\ plugin_classes \in Chains
    /\ options \in AllOptions
    /\ flow = <<>>
    /\ arr = NoArr
    /\ Fresh

\* the options dicts over the keys of one plugin class, keys left out included
OptionsOf(class) == {o \in AllOptions : DOMAIN o \subseteq DOMAIN default_options(class)}

\* split_multilayer_exr with DefaultPlugin as the whole chain
InitDefault ==
    /\ pc = "split_multilayer"
    /\ entry = "split"
    /\ selection = <<>>
    /\ \E ch \in DistinctSeqsUpTo(DefaultPool, MaxDefaultChannels) : tool = ExrLoader(ch)
    /\ plugin_classes = <<DefaultPlugin>>
    /\ options \in OptionsOf(DefaultPlugin)
    /\ flow = <<>>
    /\ arr = NoArr
    /\ Fresh

\* split_multilayer_exr with VrayPlugin as the whole chain
InitVray ==
    /\ pc = "split_multilayer"
    /\ entry = "split"
    /\ selection = <<>>
    /\ \E ch \in DistinctSeqsUpTo(VrayPool, MaxVrayChannels) : tool = ExrLoader(ch)
    /\ plugin_classes = <<VrayPlugin>>
    /\ options \in OptionsOf(VrayPlugin)
    /\ flow = <<>>
    /\ arr = NoArr
    /\ Fresh

\* the grouping of lines 289-311 alone, on any list of raw identifiers
InitGroup ==
    /\ pc = "split_multilayer"
    /\ entry = "group"
    /\ selection = <<>>
    /\ \E ch \in SeqsUpTo(GroupPool, MaxChannels) : tool = ExrLoader(ch)
    /\ plugin_classes = <<>>
    /\ options = EmptyOptions
    /\ flow = <<>>
    /\ arr = NoArr
    /\ Fresh

Positions == {<<0, 0>>, <<3, 1>>, <<-2, 7>>}

\* arrange_tools_table(comp, tools, col_spacing, max_rows, origin_tool) called directly
InitArrange ==
    /\ pc = "arrange"
    /\ entry = "arrange"
    /\ selection = <<>>
    /\ tool = NoTool
    /\ plugin_classes = <<>>
    /\ options = EmptyOptions
    /\ \E n \in 0..MaxArrange, first \in Positions, org \in Positions,
          given \in BOOLEAN, s \in {1, 2, 5}, m \in {1, max_rows, 30} :
         /\ flow = [i \in 1..n |-> IF i = 1 THEN first ELSE NewPos]
         /\ arr = [tools |-> [i \in 1..n |-> i], col_spacing |-> s, max_rows |-> m,
                   origin_given |-> given, origin_pos |-> org]
    /\ Fresh

Next ==
    \/ StartUndo
    \/ Lock
    \/ LoopTool
    \/ SplitExr
    \/ SplitMultipart
    \/ GroupLayers
    \/ InstantiatePlugins
    \/ CallPlugin
    \/ ReturnNewTools
    \/ AfterSplit
    \/ Unlock
    \/ EndUndo

NextSplit == GroupLayers \/ InstantiatePlugins \/ CallPlugin \/ ReturnNewTools

NextGroup == GroupLayers

NextArrange == ArrangeCall

Spec == Init /\ [][Next]_vars

SpecSplit == InitSplit /\ [][NextSplit]_vars

SpecDefault == InitDefault /\ [][NextSplit]_vars

SpecVray == InitVray /\ [][NextSplit]_vars

SpecGroup == InitGroup /\ [][NextGroup]_vars

SpecArrange == InitArrange /\ [][NextArrange]_vars

\* ------------------------------------------------------------- properties

\* position of the last '.' of an identifier, 0 when it has none
LastDot(c) ==
    IF \E i \in 1..Len(c) : c[i] = "."
    THEN CHOOSE i \in 1..Len(c) : c[i] = "." /\ \A j \in (i + 1)..Len(c) : c[j] # "."
    ELSE 0

\* the layer the claim assigns to an identifier: what precedes its last '.', or "default"
ClaimedLayer(c) == IF LastDot(c) = 0 THEN default ELSE SubSeq(c, 1, LastDot(c) - 1)

\* the key the claim assigns: what follows the last '.', lower-cased
ClaimedKey(c) == Lower(SubSeq(c, LastDot(c) + 1, Len(c)))

\* index in src of the first identifier the claim assigns to layer name
FirstOf(src, name) ==
    CHOOSE i \in 1..Len(src) :
        /\ ClaimedLayer(src[i]) = name
        /\ \A j \in 1..(i - 1) : ClaimedLayer(src[j]) # name

\* the indices of src that the claim assigns to layer name, in increasing order
RECURSIVE IndicesOf(_, _, _)
IndicesOf(src, name, i) ==
    IF i > Len(src) THEN <<>>
    ELSE (IF ClaimedLayer(src[i]) = name THEN <<i>> ELSE <<>>) \o IndicesOf(src, name, i + 1)

Grouped == entry = "group" /\ pc = "instantiate"

\* C4: the grouping sends every raw identifier to the layer named by what precedes its
\* last '.' ("default" when it has no '.'), under the key that follows it, lower-cased;
\* each layer lists exactly its identifiers, once per occurrence and in input order;
\* layers come in order of first occurrence; an empty input gives an empty mapping.
C4_Grouping ==
    Grouped =>
        LET src == tool.channels
        IN  /\ \A i \in 1..Len(src) : HasLayer(layers, ClaimedLayer(src[i]))
            /\ \A k \in 1..Len(layers) :
                  LET ix == IndicesOf(src, layers[k].name, 1)
                  IN  /\ ix # <<>>
                      /\ layers[k].channels =
                            [n \in 1..Len(ix) |-> <<ClaimedKey(src[ix[n]]), src[ix[n]]>>]
            /\ \A k, m \in 1..Len(layers) :
                  k < m => FirstOf(src, layers[k].name) < FirstOf(src, layers[m].name)
            /\ (src = <<>> => layers = <<>>)
            /\ (src = <<Id_VRayNormal_R, Id_VRayNormal_G, Id_VRayNormal_B>> =>
                    layers = << [name |-> <<"V","R","a","y","N","o","r","m","a","l">>,
                                 channels |-> << <<<<"r">>, Id_VRayNormal_R>>,
                                                 <<<<"g">>, Id_VRayNormal_G>>,
                                                 <<<<"b">>, Id_VRayNormal_B>> >>] >>)
            /\ (src = <<Id_Z>> =>
                    layers = << [name |-> default, channels |-> << <<<<"z">>, Id_Z>> >>] >>)

\* a grouped input with two layers that interleave, one of them with several dots
C4_Witness ==
    /\ Grouped
    /\ tool.channels = <<Id_a_b_R, Id_Z, Id_a_b_R>>
    /\ Len(layers) = 2
    /\ Len(layers[1].channels) = 2

\* the calls of the log made for layer l, as indices of the log
CallsFor(l) == {i \in 1..Len(calls) : calls[i].layer = l}

Truthy(r) == r = "True" \/ r = "tool"

RECURSIVE ToolsOf(_)
\* the nodes of the node-like results of the log, in call order
ToolsOf(i) ==
    IF i > Len(calls) THEN <<>>
    ELSE (IF calls[i].result = "tool" THEN calls[i].tools ELSE <<>>) \o ToolsOf(i + 1)

\* C9: plugins are called in chain order, layer after layer in discovery order; the
\* calls for a layer stop at the first truthy result; the created-node list holds
\* exactly the node of every node-like accepting result, one per such layer, in layer
\* order, and nothing for any other truthy result; a layer every plugin rejects is
\* skipped without an error and the next layer is dispatched.
C9_Dispatch ==
    /\ \A i \in 1..Len(calls) :
          /\ calls[i].class = plugin_classes[calls[i].plugin]
          /\ (i = 1 => calls[i].layer = 1 /\ calls[i].plugin = 1)
          /\ (i > 1 =>
                LET prev == calls[i - 1]
                IN  /\ prev.result # "raise"
                    /\ IF prev.result = "False" /\ prev.plugin < Len(plugin_classes)
                       THEN calls[i].layer = prev.layer /\ calls[i].plugin = prev.plugin + 1
                       ELSE calls[i].layer = prev.layer + 1 /\ calls[i].plugin = 1)
          /\ (calls[i].result = "tool" => Len(calls[i].tools) = 1)
          /\ (calls[i].result \in {"True", "False"} => calls[i].tools = <<>>)
    /\ \A l \in 1..Len(layers) :
          /\ \A i \in CallsFor(l) :
                Truthy(calls[i].result) => \A j \in CallsFor(l) : j <= i
          /\ Cardinality({i \in CallsFor(l) : calls[i].result = "tool"}) <= 1
    /\ (pc \in {"dispatch", "split_done"} => new_tools = ToolsOf(1))
    /\ (pc = "split_done" =>
          /\ exc = NoExc
          /\ Len(plugins) >= 1 =>
                \A l \in 1..Len(layers) :
                    \E i \in CallsFor(l) :
                        Truthy(calls[i].result) \/ calls[i].plugin = Len(plugins))

\* a finished dispatch in which the first layer was rejected by both plugins of the
\* chain and skipped, and the second was rejected by the first plugin and accepted,
\* with a node, by the second
C9_Witness ==
    /\ entry = "split"
    /\ pc = "split_done"
    /\ Len(plugins) = 2
    /\ Len(layers) = 2
    /\ Len(calls) = 4
    /\ calls[1].result = "False" /\ calls[2].result = "False"
    /\ calls[3].result = "False" /\ calls[4].result = "tool"
    /\ new_tools = calls[4].tools

\* the layers whose name contains "crypto", case-insensitively
CryptoLayers == {l \in 1..Len(layers) : Contains(crypto, Lower(layers[l].name))}

MatteNodes == {id \in 1..Len(comp_tools) : comp_tools[id].kind = "Fuse.Cryptomatte"}

InChain(class) == \E i \in 1..Len(plugin_classes) : plugin_classes[i] = class

\* what C2 says of a finished operation: no matte layer, no matte node; otherwise one
\* matte node, made by the call on the first matte layer and recorded once, and every
\* later matte layer accepted with a non-node result
OneMatteNode ==
    IF CryptoLayers = {} THEN MatteNodes = {}
    ELSE LET first == CHOOSE l \in CryptoLayers : \A m \in CryptoLayers : l <= m
         IN  /\ Cardinality(MatteNodes) = 1
             /\ \E i \in CallsFor(first) :
                   /\ calls[i].class = CryptomattePlugin
                   /\ calls[i].result = "tool"
                   /\ \A id \in MatteNodes : calls[i].tools = <<id>>
             /\ Cardinality({i \in 1..Len(calls) :
                    calls[i].layer \in CryptoLayers /\ calls[i].result = "tool"}) = 1
             /\ \A l \in CryptoLayers \ {first} :
                   \E i \in CallsFor(l) :
                       /\ calls[i].result = "True"
                       /\ calls[i].tools = <<>>

\* C2 as amended: in a split_multilayer_exr operation that returns, with
\* CryptomattePlugin first in the chain, exactly one matte node is created, on the
\* first layer whose name contains "crypto", and it is the only entry of the
\* created-node list that comes from those layers; later such layers are accepted with
\* a non-node result; without such a layer no matte node is created.
C2_OneMatteNode ==
    (entry = "split" /\ pc = "split_done" /\ Len(plugin_classes) >= 1
        /\ plugin_classes[1] = CryptomattePlugin) => OneMatteNode

\* C2 as stated: the same for every chain that contains CryptomattePlugin
C2_AnyChain ==
    (entry = "split" /\ pc = "split_done" /\ InChain(CryptomattePlugin)) => OneMatteNode

\* a finished operation over two matte layers, the second absorbed
C2_Witness ==
    /\ entry = "split"
    /\ pc = "split_done"
    /\ plugin_classes = ScriptPlugins
    /\ Cardinality(CryptoLayers) = 2
    /\ Cardinality(MatteNodes) = 1
    /\ Len(new_tools) = 1
    /\ calls[Len(calls)].result = "True"

\* the channel keys of layer l
KeysOf(l) == {layers[l].channels[n][1] : n \in 1..Len(layers[l].channels)}

\* the fixed table of the claim: the keys bound to each slot
SlotKeys ==
    [RedName |-> {<<"r">>, <<"u">>, <<"x">>}, GreenName |-> {<<"g">>, <<"v">>, <<"y">>},
     BlueName |-> {<<"b">>, <<"w">>, <<"z">>}, AlphaName |-> {<<"a">>}]

\* the raw identifiers of the channels of layer l whose key is bound to slot
RawsFor(l, slot) ==
    {layers[l].channels[n][2] :
        n \in {m \in 1..Len(layers[l].channels) : layers[l].channels[m][1] \in SlotKeys[slot]}}

\* C6: with alpha_fallback disabled, the node DefaultPlugin.process_layer returns has,
\* in each of its red, green, blue and alpha slots, the raw identifier of a channel of
\* the layer whose key the table binds to that slot, or the sentinel when the layer has
\* no such channel; its depth slot holds the sentinel; a key outside the table binds
\* nothing and does not stop the call; a layer with r, g, b and a has all four bound.
C6_DefaultSlots ==
    \A i \in 1..Len(calls) :
        (calls[i].class = DefaultPlugin /\ ~options["alpha_fallback"]
            /\ calls[i].exc # "HostError") =>
            /\ calls[i].result = "tool"
            /\ LET fmt == comp_tools[calls[i].tools[1]].fmt
                   l == calls[i].layer
               IN  /\ \A slot \in DOMAIN SlotKeys :
                         IF RawsFor(l, slot) = {} THEN fmt[slot] = CHANNEL_NO_MATCH
                         ELSE fmt[slot] \in RawsFor(l, slot)
                   /\ fmt["ZName"] = CHANNEL_NO_MATCH
                   /\ ({<<"r">>, <<"g">>, <<"b">>, <<"a">>} \subseteq KeysOf(l) =>
                         \A slot \in DOMAIN SlotKeys : fmt[slot] # CHANNEL_NO_MATCH)

\* a node made from a layer with an unknown key between its colour keys: the key is
\* skipped, the three colour slots are bound, alpha and depth stay at the sentinel
C6_Witness ==
    /\ pc = "split_done"
    /\ plugin_classes = <<DefaultPlugin>>
    /\ tool.channels = <<Id_position_R, Id_position_Q, Id_position_G, Id_position_B>>
    /\ Len(new_tools) = 1
    /\ comp_tools[new_tools[1]].fmt["RedName"] = Id_position_R
    /\ comp_tools[new_tools[1]].fmt["BlueName"] = Id_position_B
    /\ comp_tools[new_tools[1]].fmt["AlphaName"] = CHANNEL_NO_MATCH
    /\ comp_tools[new_tools[1]].fmt["ZName"] = CHANNEL_NO_MATCH

\* the raw identifiers of the channels with key 'a' of the layer named "default"
DefaultAlpha ==
    UNION {RawsFor(l, "AlphaName") : l \in {k \in 1..Len(layers) : layers[k].name = default}}

\* C5: DefaultPlugin.process_layer on a layer with r, g and b and no a, when the
\* "default" layer has a channel with key a, returns the new node; with alpha_fallback
\* enabled the node's alpha slot is that default-layer channel, with it disabled the
\* alpha slot is the sentinel.
C5_AlphaFallback ==
    \A i \in 1..Len(calls) :
        (/\ calls[i].class = DefaultPlugin
         /\ calls[i].exc # "HostError"
         /\ {<<"r">>, <<"g">>, <<"b">>} \subseteq KeysOf(calls[i].layer)
         /\ <<"a">> \notin KeysOf(calls[i].layer)
         /\ DefaultAlpha # {}) =>
            /\ calls[i].result = "tool"
            /\ LET fmt == comp_tools[calls[i].tools[1]].fmt
               IN  IF options["alpha_fallback"] THEN fmt["AlphaName"] \in DefaultAlpha
                   ELSE fmt["AlphaName"] = CHANNEL_NO_MATCH

position == <<"p","o","s","i","t","i","o","n">>

normal == <<"n","o","r","m","a","l">>

PosName == <<"P","o","s","N","a","m","e">>

\* whether a later write of the log, in this call or a later one, is to attribute a
Overwritten(i, n, a) ==
    \/ \E m \in (n + 1)..Len(calls[i].writes) : calls[i].writes[m][1] = a
    \/ \E j \in (i + 1)..Len(calls) :
          \E m \in 1..Len(calls[j].writes) : calls[j].writes[m][1] = a

\* what C7 says of call i: it returns True, creates no node, and writes the raw
\* identifier of every r channel to XPosName, of every g channel to ZPosName with the
\* flip and YPosName without, of every b channel to YPosName with the flip and ZPosName
\* without, on the originating loader
PositionWrites(i) ==
    LET ch == layers[calls[i].layer].channels
        flip == options["flip_worldpos_axis"]
        Letter(key) ==
            CASE key = <<"r">> -> "X"
              [] key = <<"g">> -> IF flip THEN "Z" ELSE "Y"
              [] key = <<"b">> -> IF flip THEN "Y" ELSE "Z"
    IN  /\ calls[i].result = "True"
        /\ calls[i].tools = <<>>
        /\ Len(calls[i].writes) = Len(ch)
        /\ \A n \in 1..Len(ch) :
              ch[n][1] \in {<<"r">>, <<"g">>, <<"b">>} =>
                  /\ calls[i].writes[n] = << <<Letter(ch[n][1])>> \o PosName, ch[n][2] >>
                  /\ (calls[i].writes[n] \in loader_fmt
                        \/ Overwritten(i, n, calls[i].writes[n][1]))

\* C7 as amended: VrayPlugin.process_layer with auxiliary-channel processing enabled, on
\* a layer whose name contains "position" and does not contain "normal", writes g to
\* the Z attribute of the position group and b to its Y attribute when the flip-axis
\* option is enabled, g to Y and b to Z when it is disabled, r to X in both cases; the
\* value written is the raw identifier, the write is on the originating loader, and
\* the result is truthy and not a node.
C7_PositionFlip ==
    \A i \in 1..Len(calls) :
        (/\ calls[i].class = VrayPlugin
         /\ options["use_aux_channels"]
         /\ Contains(position, Lower(layers[calls[i].layer].name))
         /\ ~Contains(normal, Lower(layers[calls[i].layer].name))) => PositionWrites(i)

\* C7 as stated: the same on every layer whose name contains "position"
C7_AnyPositionLayer ==
    \A i \in 1..Len(calls) :
        (/\ calls[i].class = VrayPlugin
         /\ options["use_aux_channels"]
         /\ Contains(position, Lower(layers[calls[i].layer].name))) => PositionWrites(i)

\* a position layer with r, g and b remapped with the flip: g on Z, b on Y, r on X
C7_Witness ==
    /\ pc = "split_done"
    /\ plugin_classes = <<VrayPlugin>>
    /\ options["use_aux_channels"]
    /\ options["flip_worldpos_axis"]
    /\ tool.channels = <<Id_position_G, Id_position_B, Id_position_R>>
    /\ loader_fmt = {<< <<"Z">> \o PosName, Id_position_G >>,
                     << <<"Y">> \o PosName, Id_position_B >>,
                     << <<"X">> \o PosName, Id_position_R >>}
    /\ new_tools = <<>>

Ended == pc \in {"returned", "raised"}

\* the events of tool t, in order
RECURSIVE EventsOf(_, _)
EventsOf(t, i) ==
    IF i > Len(events) THEN <<>>
    ELSE (IF events[i][2] = t THEN <<events[i]>> ELSE <<>>) \o EventsOf(t, i + 1)

\* C1: a run of split_exr_script ends with the graph unlocked and the undo transaction
\* closed as completed, Lock, Unlock, StartUndo and EndUndo having each been called
\* exactly once, whether the loop finished or an exception was raised while a tool was
\* split; an exception ends the batch at that tool and leaves the script as an
\* exception; and the script does not stop anywhere else.
C1_LockUndoReleased ==
    /\ entry = "script"
    /\ lock.locks <= 1 /\ lock.unlocks <= lock.locks
    /\ undo.starts <= 1 /\ undo.ends <= undo.starts
    /\ (Ended =>
          /\ ~lock.held /\ lock.locks = 1 /\ lock.unlocks = 1
          /\ ~undo.open /\ undo.starts = 1 /\ undo.ends = 1 /\ undo.completed)
    /\ (pc = "returned" => exc = NoExc /\ ti = Len(selection))
    /\ (exc # NoExc =>
          /\ pc \in {"finally", "end_undo", "raised"}
          /\ events # <<>>
          /\ events[Len(events)] = <<"raise", ti, 0>>)
    /\ (\A i \in 1..Len(events) : events[i][1] = "raise" => i = Len(events) /\ exc # NoExc)
    /\ (~Ended => ENABLED Next)

\* a run over two tools that ended on an exception raised while the first was split
C1_Witness ==
    /\ pc = "raised"
    /\ exc = "HostError"
    /\ Len(selection) = 2
    /\ ti = 1
    /\ comp_tools # <<>>
    /\ lock = [held |-> FALSE, locks |-> 1, unlocks |-> 1]
    /\ undo = [open |-> FALSE, starts |-> 1, ends |-> 1, completed |-> TRUE]

\* C3: split_exr invokes at most one of the two splitters for a tool, and a tool whose
\* format has a non-empty part enumeration goes to split_multipart_exr: it is never
\* grouped into layers and no plugin is run for it.
C3_ModesExclusive ==
    /\ \A t \in 1..Len(selection) :
          LET ev == EventsOf(t, 1)
              inv == {i \in 1..Len(ev) :
                        ev[i][1] \in {"split_multipart_exr", "split_multilayer_exr"}}
              entered == t < ti \/ (t = ti /\ pc # "split_exr")
          IN  /\ Cardinality(inv) <= 1
              /\ (selection[t].fmt_name = "OpenEXRFormat" /\ selection[t].has_part
                    /\ selection[t].parts # <<>>) =>
                    /\ \A i \in 1..Len(ev) : ev[i][1] # "split_multilayer_exr"
                    /\ (entered => ev # <<>> /\ ev[1][1] = "split_multipart_exr")
    /\ (pc \in {"split_multilayer", "instantiate", "dispatch"} =>
          /\ ~(tool.has_part /\ tool.parts # <<>>)
          /\ events[Len(events)] = <<"split_multilayer_exr", ti, 0>>)
    /\ (pc = "split_multipart" => events[Len(events)] = <<"split_multipart_exr", ti, 0>>)

\* a multi-part loader with two parts, split into two loaders and arranged, after a
\* multi-layer loader was split by the plugins
C3_Witness ==
    /\ pc = "loop"
    /\ ti = 2
    /\ selection[1] = ExrLoader(<<Id_L_R, Id_A>>)
    /\ selection[2] = MultipartLoader(<<"diffuse", "specular">>)
    /\ events = << <<"split_multilayer_exr", 1, 0>>, <<"arrange_tools_table", 1, 2>>,
                   <<"split_multipart_exr", 2, 0>>, <<"arrange_tools_table", 2, 2>> >>

\* the splitter the format of tool t selects
Splitter(t) ==
    IF selection[t].has_part THEN "split_multipart_exr" ELSE "split_multilayer_exr"

\* C10: unless the host refuses a node, split_exr on every selected Loader, in
\* selection order, invokes the splitter its format selects, then calls
\* arrange_tools_table when there are new nodes and returns without raising when there
\* are none (as for a loader no splitter applies to), and the batch goes on to the next
\* tool until the selection is exhausted.
C10_EveryToolSplit ==
    exc # "HostError" =>
        /\ exc = NoExc
        /\ \A i \in 1..Len(events) :
              /\ (i = 1 => events[i][2] = 1)
              /\ (i > 1 => events[i][2] \in {events[i - 1][2], events[i - 1][2] + 1})
        /\ \A t \in 1..Len(selection) :
              (t < ti \/ (t = ti /\ pc \in {"loop", "finally", "end_undo", "returned"})) =>
                  LET ev == EventsOf(t, 1)
                      last == ev[Len(ev)]
                  IN  /\ ev # <<>>
                      /\ (selection[t].fmt_name = "OpenEXRFormat" =>
                            Len(ev) = 2 /\ ev[1] = <<Splitter(t), t, 0>>)
                      /\ last[1] \in {"arrange_tools_table", "return"}
                      /\ (last[1] = "arrange_tools_table" <=> last[3] > 0)
        /\ (Ended => pc = "returned" /\ ti = Len(selection))

\* C8: arrange_tools_table puts the node at index i at
\* (x + (i div 20) * col_spacing, y + (i mod 20)), (x, y) being the position of the
\* origin, or of the first node when no origin is given, whatever max_rows is passed;
\* index 20 lands one column spacing to the right of the origin, on its row.
C8_Layout ==
    [][(pc = "arrange" /\ pc' = "arranged") =>
        LET org == IF arr.origin_given THEN arr.origin_pos ELSE flow[arr.tools[1]]
            n == Len(arr.tools)
        IN  /\ DOMAIN flow' = DOMAIN flow
            /\ \A i \in 0..(n - 1) :
                  flow'[arr.tools[i + 1]] =
                      <<org[1] + (i \div 20) * arr.col_spacing, org[2] + (i % 20)>>
            /\ (n > 20 => flow'[arr.tools[21]] = <<org[1] + arr.col_spacing, org[2]>>)]_vars

\* 25 nodes arranged without an origin, with max_rows passed as 30: index 20 is at
\* column 1, row 0, and index 19 closes column 0
C8_Witness ==
    /\ pc = "arranged"
    /\ Len(arr.tools) = 25
    /\ ~arr.origin_given
    /\ arr.max_rows = 30
    /\ arr.col_spacing = 2
    /\ flow[1] = <<3, 1>>
    /\ flow[20] = <<3, 20>>
    /\ flow[21] = <<5, 1>>
    /\ flow[25] = <<5, 5>>

====
